---- MODULE Spec2Model ----
(***************************************************************************)
(* geoapy: a client of the ipgeolocation.io HTTP API with a key file and a *)
(* shelve-backed cache of responses keyed by IP.                           *)
(*                                                                         *)
(* Representation.  A Python str is a sequence of one-character strings,   *)
(* so that substring tests, lower-casing, splitting and concatenation are  *)
(* computed rather than assumed.  The long, never inspected explanation    *)
(* texts of RequestError are sequences of a single chunk holding the text. *)
(* Python values that cross the public interface carry their type in the   *)
(* field t.                                                                *)
(***************************************************************************)
EXTENDS Integers, Sequences, FiniteSets, TLC

VARIABLES
    keyfile,    \* the key file beside the module: [exists, content]
    cachefile,  \* the shelve file beside the module: [exists, db]
    call,       \* the last call made by the client program: its name and arguments
    outcome,    \* what that call returned or raised
    trace,      \* the functions and collaborators that call invoked, in order
    request,    \* the URL handed to requests.get during that call, or None
    response    \* the HTTP response received during that call, or None

vars == <<keyfile, cachefile, call, outcome, trace, request, response>>

----------------------------------------------------------------------------
(* Python values *)

None == [t |-> "None"]
Str(s) == [t |-> "str", s |-> s]
Number(n) == [t |-> "int", n |-> n]
List(l) == [t |-> "list", l |-> l]
Dict(d) == [t |-> "dict", d |-> d]
Object(attrs) == [t |-> "Response", dict |-> attrs]

\* Python's truth value of v, as tested by `if v:`.
Truthy(v) ==
    CASE v.t = "None" -> FALSE
      [] v.t = "str" -> Len(v.s) > 0
      [] v.t = "int" -> v.n # 0
      [] v.t = "list" -> Len(v.l) > 0
      [] v.t = "dict" -> DOMAIN v.d # {}
      [] OTHER -> TRUE

\* How a call ends: with a returned value or a raised exception and its arguments.
Return(v) == [kind |-> "return", value |-> v, exc |-> "", args |-> <<>>]
Raise(e, a) == [kind |-> "raise", value |-> None, exc |-> e, args |-> a]

\* needle in haystack, for two strs.
IsSubstring(needle, haystack) ==
    \E i \in 0..(Len(haystack) - Len(needle)) :
        SubSeq(haystack, i + 1, i + Len(needle)) = needle

UpperCase == <<"A","B","C","D","E","F","G","H","I","J","K","L","M",
               "N","O","P","Q","R","S","T","U","V","W","X","Y","Z">>
LowerCase == <<"a","b","c","d","e","f","g","h","i","j","k","l","m",
               "n","o","p","q","r","s","t","u","v","w","x","y","z">>

\* str.lower() on one character, then on a str.
LowerChar(c) ==
    IF \E i \in 1..Len(UpperCase) : UpperCase[i] = c
    THEN LowerCase[CHOOSE i \in 1..Len(UpperCase) : UpperCase[i] = c]
    ELSE c
lower(s) == [i \in 1..Len(s) |-> LowerChar(s[i])]

----------------------------------------------------------------------------
(* Module constants *)

__KEY_FILE == <<"k","e","y",".","t","x","t">>
__URL == <<"h","t","t","p","s",":","/","/","a","p","i",".","i","p","g","e","o",
           "l","o","c","a","t","i","o","n",".","i","o","/","i","p","g","e","o","?">>
__API_PARAM == <<"a","p","i","K","e","y">>
_FIELDS == <<
    <<"d","o","m","a","i","n">>,
    <<"i","p">>,
    <<"h","o","s","t","n","a","m","e">>,
    <<"c","o","n","t","i","n","e","n","t","_","c","o","d","e">>,
    <<"c","o","n","t","i","n","e","n","t","_","n","a","m","e">>,
    <<"c","o","u","n","t","r","y","_","c","o","d","e","2">>,
    <<"c","o","u","n","t","r","y","_","c","o","d","e","3">>,
    <<"c","o","u","n","t","r","y","_","n","a","m","e">>,
    <<"c","o","u","n","t","r","y","_","c","a","p","i","t","a","l">>,
    <<"s","t","a","t","e","_","p","r","o","v">>,
    <<"d","i","s","t","r","i","c","t">>,
    <<"c","i","t","y">>,
    <<"z","i","p","c","o","d","e">>,
    <<"l","a","t","i","t","u","d","e">>,
    <<"l","o","n","g","i","t","u","d","e">>,
    <<"i","s","_","e","u">>,
    <<"c","a","l","l","i","n","g","_","c","o","d","e">>,
    <<"c","o","u","n","t","r","y","_","t","l","d">>,
    <<"l","a","n","g","u","a","g","e","s">>,
    <<"c","o","u","n","t","r","y","_","f","l","a","g">>,
    <<"g","e","o","n","a","m","e","_","i","d">>,
    <<"i","s","p">>,
    <<"c","o","n","n","e","c","t","i","o","n","_","t","y","p","e">>,
    <<"o","r","g","a","n","i","z","a","t","i","o","n">>,
    <<"a","s","n">>,
    <<"c","u","r","r","e","n","c","y">>,
    <<"t","i","m","e","_","z","o","n","e">> >>
_CACHE_FILE == <<"c","a","c","h","e">>

\* Path(__file__).parent: the directory that holds the module, the key file and
\* the cache file.  One fixed directory; a Path is modelled by its text.
currentfolder == <<"/","g","e","o","a","p","y">>

\* x in seq, for a list.
InList(x, seq) == \E i \in 1..Len(seq) : seq[i] = x

----------------------------------------------------------------------------
(* Exceptions *)

KeyNotFound == Raise("KeyNotFound", <<>>)
IncorrectIpFormat(iptype) == Raise("IncorrectIpFormat", <<Str(iptype)>>)
FieldDoesNotExist(field) == Raise("FieldDoesNotExist", <<Str(field)>>)
RequestError(code, text) == Raise("RequestError", <<code, text>>)

\* The explanation passed to RequestError for this status (text of lines 233-248).
REASON_401 ==
    <<"It is returned for one of the following reasons:\n\t(1) If API key (as \"apiKey\" URL parameter) is missing from the request toIP Geolocation API.\n\t(2) If an invalid (a random value) API key is provided.\n\t(3) If the API request is made from an unverified ipgeolocation.io account.\n\t(4) If your account has been disabled or locked to use by the admin due to abuse or illegal activity.\n\t(5) When the request to IP Geolocation API ismade using API key for a database subscription.\n\t(6) When the request to IP Geolocation API is made on the \"paused\" subscription.\n\t(7) If you're making API requests after your subscription trial has been expired.\n\t(8) If your active until date has passed and you need to upgrade your account.\n\t(9) If bulk IP to geolocation look-ups endpoint is called using free subscription API key.\n\t(10) If user-agent lookup using custom string or bulk user-agent look-ups endpoints are called using free subscription API key.\n\t(11) When the wrong input is provided in the request to any endpoint of IP Geolocation API.">>
\* The explanation passed to RequestError for this status (text of lines 251-252).
REASON_403 ==
    <<"It is returned for one of the following reasons:\n\t(1) If IP to geolocation look-up for a domain name is done using a free subscription API key.">>
\* The explanation passed to RequestError for this status (text of lines 255-256).
REASON_404 ==
    <<"It is returned for one of the following reasons:\n\t(1) If the queried IP address or domain name is not found in our database.">>
\* The explanation passed to RequestError for this status (text of lines 259-260).
REASON_423 ==
    <<"If the queried IP address is a [bogon]() (bogus IP address from the bogon space) IP address.">>
\* The explanation passed to RequestError for this status (text of lines 263-266).
REASON_429 ==
    <<"It is returned for one of the following reasons:\n\t(1) If the API usage limit has reached for the free subscriptions, or paid subscriptions with the status \"past due\", \"deleted\" or \"trial expired\".\n\t(2) If the surcharge API usage limit has reached against the subscribed plan.">>

----------------------------------------------------------------------------
(* class Response *)

\* The name under which __init__ stores the module directory on the instance.
CURRENTFOLDER_ATTR == <<"c","u","r","r","e","n","t","f","o","l","d","e","r">>

\* `field in attributes`: key membership for a dict, substring test for a str.
Contains(attributes, field) ==
    CASE attributes.t = "dict" -> field \in DOMAIN attributes.d
      [] attributes.t = "str" -> IsSubstring(field, attributes.s)
      [] OTHER -> FALSE

RECURSIVE InitFields_NoDefault(_, _, _)
\* __init__ gone wrong: a catalog field the payload lacks is not set at all.
InitFields_NoDefault(attributes, i, self) ==
    IF i > Len(_FIELDS)
    THEN Return(Object((CURRENTFOLDER_ATTR :> currentfolder) @@ self))
    ELSE LET field == _FIELDS[i] IN
         IF Contains(attributes, field)
         THEN IF attributes.t = "dict"
              THEN InitFields_NoDefault(attributes, i + 1,
                                        (field :> attributes.d[field]) @@ self)
              ELSE Raise("TypeError", <<>>)
         ELSE InitFields_NoDefault(attributes, i + 1, self)

RECURSIVE InitFields(_, _, _)
\* The loop of __init__ from catalog position i on, self being the instance
\* dictionary built so far.  attributes[field] on a str raises TypeError.
InitFields(attributes, i, self) ==
    IF i > Len(_FIELDS)
    THEN Return(Object((CURRENTFOLDER_ATTR :> currentfolder) @@ self))
    ELSE LET field == _FIELDS[i] IN
         IF Contains(attributes, field)
         THEN IF attributes.t = "dict"
              THEN InitFields(attributes, i + 1, (field :> attributes.d[field]) @@ self)
              ELSE Raise("TypeError", <<>>)
         ELSE InitFields(attributes, i + 1, (field :> <<>>) @@ self)

\* Response(attributes)
Response(attributes) == InitFields(attributes, 1, <<>>)

\* What a step of a call leaves behind: its outcome and the cache file after it.
Effect(out, cf) == [outcome |-> out, cachefile |-> cf]

\* Shelf.get(key): the stored value, or None for a key that is not there.
DbGet(db, key) == IF key \in DOMAIN db THEN Dict(db[key]) ELSE None

\* shelve.open(..., 'w') of a file that does not exist.
DbmError == Raise("dbm.error", <<>>)

\* self.cache()
cache(self, cf) ==
    LET ip == self.dict[<<"i","p">>] IN
    IF ~cf.exists
    THEN Effect(DbmError, cf)
    ELSE Effect(Return(None), [cf EXCEPT !.db = (ip :> self.dict) @@ cf.db])

\* self.uncache()
uncache(self, cf) ==
    LET ip == self.dict[<<"i","p">>] IN
    IF ~cf.exists
    THEN Effect(DbmError, cf)
    ELSE LET value == DbGet(cf.db, <<"i","p">>) IN
         IF Truthy(value)
         THEN IF ip \in DOMAIN cf.db
              THEN Effect(Return(None),
                          [cf EXCEPT !.db = [k \in DOMAIN cf.db \ {ip} |-> cf.db[k]]])
              ELSE Effect(Raise("KeyError", <<Str(ip)>>), cf)
         ELSE Effect(Return(None), cf)

\* Response.retreivefromcache(ip); shelve.open(..., 'c') creates a missing file.
retreivefromcache(ip, cf) ==
    LET opened == [cf EXCEPT !.exists = TRUE]
        value == DbGet(opened.db, ip.s)
    IN  IF Truthy(value)
        THEN Effect(Response(ip), opened)
        ELSE Effect(Return(None), opened)

----------------------------------------------------------------------------
(* The key file *)

\* registerkey(keystring): the key file after the call.
registerkey(keystring) == [exists |-> TRUE, content |-> keystring.s]

\* getkey gone wrong: a missing key file reads as an empty key.
getkey_EmptyKey(kf) == IF kf.exists THEN Return(Str(kf.content)) ELSE Return(Str(<<>>))

\* getkey()
getkey(kf) == IF kf.exists THEN Return(Str(kf.content)) ELSE KeyNotFound

\* listfields()
listfields == Return(List(_FIELDS))

----------------------------------------------------------------------------
(* checkipformat *)

Digits == <<"0","1","2","3","4","5","6","7","8","9">>
IsDigit(c) == InList(c, Digits)
DigitValue(c) == (CHOOSE i \in 1..Len(Digits) : Digits[i] = c) - 1

RECURSIVE split(_, _)
\* re.compile('\.').split(s), sep being the dot.
split(s, sep) ==
    IF ~InList(sep, s)
    THEN <<s>>
    ELSE LET i == CHOOSE i \in 1..Len(s) : s[i] = sep /\ \A j \in 1..(i - 1) : s[j] # sep
         IN  <<SubSeq(s, 1, i - 1)>> \o split(SubSeq(s, i + 1, Len(s)), sep)

\* The whole of chunk is matched by [0-2]?[0-9]{1,2}.
MatchesOctet(chunk) ==
    \/ /\ Len(chunk) \in 1..2
       /\ \A i \in 1..Len(chunk) : IsDigit(chunk[i])
    \/ /\ Len(chunk) \in 2..3
       /\ chunk[1] \in {"0", "1", "2"}
       /\ \A i \in 2..Len(chunk) : IsDigit(chunk[i])

\* The whole of s is matched by the four octets and the three dots of the pattern.
\* An octet holds no dot, so the dots of s are the dots of the pattern.
MatchesQuad(s) ==
    LET chunks == split(s, ".") IN
    /\ Len(chunks) = 4
    /\ \A i \in 1..4 : MatchesOctet(chunks[i])

\* ipv4.match(ip) for the pattern ^...$: without re.MULTILINE, $ matches at the
\* end of the string and also just before a newline that ends the string.
ipv4_match(ip) ==
    \/ MatchesQuad(ip)
    \/ /\ Len(ip) > 0
       /\ ip[Len(ip)] = "\n"
       /\ MatchesQuad(SubSeq(ip, 1, Len(ip) - 1))

Whitespace == {" ", "\t", "\n", "\r"}

RECURSIVE strip(_)
\* str.strip(), which int() applies to its argument.
strip(s) ==
    IF s = <<>> THEN s
    ELSE IF s[1] \in Whitespace THEN strip(Tail(s))
    ELSE IF s[Len(s)] \in Whitespace THEN strip(SubSeq(s, 1, Len(s) - 1))
    ELSE s

RECURSIVE DecimalValue(_)
DecimalValue(ds) ==
    IF ds = <<>> THEN 0
    ELSE 10 * DecimalValue(SubSeq(ds, 1, Len(ds) - 1)) + DigitValue(ds[Len(ds)])

\* int(s) for a str of decimal digits with whitespace around it.
int(s) == DecimalValue(strip(s))

\* checkipformat(ip)
checkipformat(ip) ==
    IF ipv4_match(ip.s)
    THEN LET ipv4_chunks == split(ip.s, ".")
             values == [i \in 1..Len(ipv4_chunks) |-> int(ipv4_chunks[i])]
             Below256(v) == v < 256
             valid_values == SelectSeq(values, Below256)
         IN  IF Len(valid_values) = 4
             THEN Return(None)
             ELSE IncorrectIpFormat(<<"i","p","v","4">>)
    ELSE IncorrectIpFormat(<<"i","p","v","4">>)

----------------------------------------------------------------------------
(* formatfields *)

RECURSIVE join(_, _)
\* sep.join(strs)
join(sep, strs) ==
    IF strs = <<>> THEN <<>>
    ELSE IF Len(strs) = 1 THEN strs[1]
    ELSE strs[1] \o sep \o join(sep, Tail(strs))

\* formatfields(fields): every field is looked up in _FIELDS as it was given,
\* and only then are the fields lower-cased and joined.
formatfields(fields) ==
    IF \E i \in 1..Len(fields.l) : ~InList(fields.l[i], _FIELDS)
    THEN LET i == CHOOSE i \in 1..Len(fields.l) :
                      /\ ~InList(fields.l[i], _FIELDS)
                      /\ \A j \in 1..(i - 1) : InList(fields.l[j], _FIELDS)
         IN  FieldDoesNotExist(fields.l[i])
    ELSE Return(Str(join(<<",">>, [i \in 1..Len(fields.l) |-> lower(fields.l[i])])))

----------------------------------------------------------------------------
(* get *)

\* The status mapping gone wrong: every status below 400 is taken for success.
MapStatus_Below400(r) ==
    CASE r.status_code < 400 -> Response(r.json)
      [] r.status_code = 401 -> RequestError(Number(r.status_code), Str(REASON_401))
      [] r.status_code = 403 -> RequestError(Number(r.status_code), Str(REASON_403))
      [] r.status_code = 404 -> RequestError(Number(r.status_code), Str(REASON_404))
      [] r.status_code = 423 -> RequestError(Number(r.status_code), Str(REASON_423))
      [] r.status_code = 429 -> RequestError(Number(r.status_code), Str(REASON_429))
      [] OTHER -> RequestError(Str(<<"U","n","k","n","o","w","n">>),
                               Str(<<"U","n","k","n","o","w","n">>))

\* The status of an HTTP response turned into the result of get.
MapStatus(r) ==
    CASE r.status_code = 200 -> Response(r.json)
      [] r.status_code = 401 -> RequestError(Number(r.status_code), Str(REASON_401))
      [] r.status_code = 403 -> RequestError(Number(r.status_code), Str(REASON_403))
      [] r.status_code = 404 -> RequestError(Number(r.status_code), Str(REASON_404))
      [] r.status_code = 423 -> RequestError(Number(r.status_code), Str(REASON_423))
      [] r.status_code = 429 -> RequestError(Number(r.status_code), Str(REASON_429))
      [] OTHER -> RequestError(Str(<<"U","n","k","n","o","w","n">>),
                               Str(<<"U","n","k","n","o","w","n">>))

\* How a call of get ends: st holds the cache file, the trace and the query
\* string so far, req the URL requested (or None), resp the response received.
GetResult(out, st, req, resp) ==
    [outcome |-> out, cachefile |-> st.cachefile, trace |-> st.trace,
     request |-> req, response |-> resp]

Called(st, what) == [st EXCEPT !.trace = @ \o <<what>>]

\* The request gone wrong: a record fetched with status 200 is cached at once.
RequestStep_AutoCache(a, r, st) ==
    LET out == MapStatus(r)
        kept == IF out.kind = "return" /\ st.cachefile.exists
                THEN cache(out.value, st.cachefile).cachefile
                ELSE st.cachefile
    IN  GetResult(out, [Called(st, "requests.get") EXCEPT !.cachefile = kept],
                  Str(__URL \o st.query_str), r)

\* r = requests.get(__URL + query_str), r being the provider's answer, and the
\* status mapping that follows.
RequestStep(a, r, st) ==
    GetResult(MapStatus(r), Called(st, "requests.get"), Str(__URL \o st.query_str), r)

\* query_str += '&excludes=' + exclude
AppendExcludes(query_str, exclude) == query_str \o <<"&","e","x","c","l","u","d","e","s","=">> \o exclude

\* if excluded_fields: ...
ExcludesStep(a, r, st) ==
    IF Truthy(a.excluded_fields)
    THEN LET exclude == formatfields(a.excluded_fields)
             called == Called(st, "formatfields(excluded_fields)")
         IN  IF exclude.kind = "raise"
             THEN GetResult(exclude, called, None, None)
             ELSE RequestStep(a, r, [called EXCEPT
                      !.query_str = AppendExcludes(@, exclude.value.s)])
    ELSE RequestStep(a, r, st)

\* The fields parameter gone wrong: no & before it.
AppendFields_NoSeparator(query_str, include) ==
    query_str \o <<"f","i","e","l","d","s","=">> \o include

\* query_str += '&fields=' + include
AppendFields(query_str, include) == query_str \o <<"&","f","i","e","l","d","s","=">> \o include

\* if fields: ...
FieldsStep(a, r, st) ==
    IF Truthy(a.fields)
    THEN LET include == formatfields(a.fields)
             called == Called(st, "formatfields(fields)")
         IN  IF include.kind = "raise"
             THEN GetResult(include, called, None, None)
             ELSE ExcludesStep(a, r, [called EXCEPT
                      !.query_str = AppendFields(@, include.value.s)])
    ELSE ExcludesStep(a, r, st)

\* query_str += '&ip=' + ip
AppendIp(query_str, ip) == query_str \o <<"&","i","p","=">> \o ip

\* The ip step gone wrong: the ip is put in the query without being checked.
IpStep_Unchecked(a, r, st) ==
    IF Truthy(a.ip)
    THEN FieldsStep(a, r, [st EXCEPT !.query_str = AppendIp(@, a.ip.s)])
    ELSE FieldsStep(a, r, st)

\* if ip: ...
IpStep(a, r, st) ==
    IF Truthy(a.ip)
    THEN LET checked == checkipformat(a.ip)
             called == Called(st, "checkipformat")
         IN  IF checked.kind = "raise"
             THEN GetResult(checked, called, None, None)
             ELSE FieldsStep(a, r, [called EXCEPT !.query_str = AppendIp(@, a.ip.s)])
    ELSE FieldsStep(a, r, st)

\* if cache_search and ip: ...
CacheStep(a, r, st) ==
    IF a.cache_search /\ Truthy(a.ip)
    THEN LET found == retreivefromcache(a.ip, st.cachefile)
             called == [Called(st, "retreivefromcache") EXCEPT
                           !.cachefile = found.cachefile]
         IN  IF found.outcome.kind = "raise" \/ found.outcome.value # None
             THEN GetResult(found.outcome, called, None, None)
             ELSE IpStep(a, r, called)
    ELSE IpStep(a, r, st)

\* get(ip, fields, excluded_fields, cache_search) with the key file kf and the
\* cache file cf, r being the answer the provider gives if it is asked.
get(a, r, kf, cf) ==
    LET key == getkey(kf)
        st == [cachefile |-> cf, trace |-> <<"getkey">>, query_str |-> <<>>]
    IN  IF key.kind = "raise"
        THEN GetResult(key, st, None, None)
        ELSE CacheStep(a, r, [st EXCEPT
                 !.query_str = __API_PARAM \o <<"=">> \o key.value.s])

----------------------------------------------------------------------------
(* The values the client program calls the library with *)

IP == <<"i","p">>
CITY == <<"c","i","t","y">>
ASN == <<"a","s","n">>
ISP == <<"i","s","p">>
TIME_ZONE == <<"t","i","m","e","_","z","o","n","e">>
FOO == <<"f","o","o">>
BOGUS == <<"b","o","g","u","s">>

\* Longest list of fields given to formatfields on its own.
MaxFields == 2
\* Longest octet text tried in the first position of an address.
MaxOctetLen == 3

IP_A == <<"1",".","2",".","3",".","4">>

Keys == {Str(<<"K","1">>), Str(<<"K","2">>)}

\* JSON bodies, also used to build the records the client caches and uncaches.
PayloadA == (IP :> IP_A) @@ (CITY :> <<"X">>)
PayloadB == (IP :> IP_A) @@ (CITY :> <<"Y">>) @@ (FOO :> <<"z">>)
PayloadC == (IP :> IP)
Payloads == {PayloadA, PayloadB, PayloadC}

IP_B == <<"1",".","2",".","3",".","2","5","6">>
IpArgs == {None, Str(<<>>), Str(IP_A), Str(IP_B), Str(IP)}
FieldArgs == {None, List(<<>>), List(<<CITY, ASN>>), List(<<BOGUS>>)}
ExcludedArgs == {None, List(<<ISP>>), List(<<<<"C","i","t","y">>>>)}
GetArgs ==
    [ip : IpArgs, fields : FieldArgs, excluded_fields : ExcludedArgs,
     cache_search : BOOLEAN]

HttpResponse(status, body) == [status_code |-> status, json |-> Dict(body)]
Responses ==
    {HttpResponse(s, PayloadA) : s \in {200, 201, 401, 403, 404, 423, 429, 500}}
        \cup {HttpResponse(200, PayloadB)}

----------------------------------------------------------------------------
(* The library in use.  The library is synchronous: the client program makes *)
(* one call at a time, and call, outcome, trace, request and response hold   *)
(* that call and what it did until the client goes on (Continue).            *)

NoCall == [name |-> "none"]

Init ==
    /\ keyfile = [exists |-> FALSE, content |-> <<>>]
    /\ cachefile = [exists |-> FALSE, db |-> <<>>]
    /\ call = NoCall
    /\ outcome = Return(None)
    /\ trace = <<>>
    /\ request = None
    /\ response = None

RegisterKey(keystring) ==
    /\ call = NoCall
    /\ keyfile' = registerkey(keystring)
    /\ call' = [name |-> "registerkey", keystring |-> keystring]
    /\ outcome' = Return(None)
    /\ UNCHANGED <<cachefile, trace, request, response>>

Cache(payload) ==
    /\ call = NoCall
    /\ \E self \in {Response(Dict(payload)).value} :
       \E done \in {cache(self, cachefile)} :
          /\ cachefile' = done.cachefile
          /\ call' = [name |-> "cache", self |-> self]
          /\ outcome' = done.outcome
    /\ UNCHANGED <<keyfile, trace, request, response>>

Uncache(payload) ==
    /\ call = NoCall
    /\ \E self \in {Response(Dict(payload)).value} :
       \E done \in {uncache(self, cachefile)} :
          /\ cachefile' = done.cachefile
          /\ call' = [name |-> "uncache", self |-> self]
          /\ outcome' = done.outcome
    /\ UNCHANGED <<keyfile, trace, request, response>>

Get(a, r) ==
    /\ call = NoCall
    /\ \E done \in {get(a, r, keyfile, cachefile)} :
          /\ cachefile' = done.cachefile
          /\ call' = [name |-> "get", ip |-> a.ip, fields |-> a.fields,
                      excluded_fields |-> a.excluded_fields,
                      cache_search |-> a.cache_search]
          /\ outcome' = done.outcome
          /\ trace' = done.trace
          /\ request' = done.request
          /\ response' = done.response
    /\ UNCHANGED keyfile

\* The call has returned or raised and the client program goes on.
Continue ==
    /\ call # NoCall
    /\ call' = NoCall
    /\ outcome' = Return(None)
    /\ trace' = <<>>
    /\ request' = None
    /\ response' = None
    /\ UNCHANGED <<keyfile, cachefile>>

Next ==
    \/ \E keystring \in Keys : RegisterKey(keystring)
    \/ \E payload \in Payloads : Cache(payload)
    \/ \E payload \in Payloads : Uncache(payload)
    \/ \E a \in GetArgs, r \in Responses : Get(a, r)
    \/ Continue

Spec == Init /\ [][Next]_vars

----------------------------------------------------------------------------
(* The functions the client can call on their own, over wider inputs *)

RECURSIVE SeqsUpTo(_, _)
\* The sequences of at most n elements of S.
SeqsUpTo(S, n) ==
    IF n = 0 THEN {<<>>}
    ELSE LET shorter == SeqsUpTo(S, n - 1)
         IN  shorter \cup {s \o <<x>> : s \in shorter, x \in S}

OctetSamples == SeqsUpTo({"0", "2", "5", "6", "a"}, MaxOctetLen)
IpSamples ==
    {pre \o first \o <<".","2",".","3",".">> \o last \o post :
        pre \in {<<>>, <<" ">>},
        first \in OctetSamples,
        last \in {<<"4">>, <<"2","5","6">>, <<>>},
        post \in {<<>>, <<"\n">>, <<"\n","\n">>, <<".","5">>, <<"x">>}}
      \cup {<<"1",".","2",".","3">>}

FieldSamples == {CITY, ASN, IP, BOGUS, <<"C","i","t","y">>, <<"A","S","N">>}
FieldLists == SeqsUpTo(FieldSamples, MaxFields)

AttributeNames == {IP, CITY, TIME_ZONE, FOO, <<"C","I","T","Y">>}
AttributeValues == {<<>>, <<"X">>, IP_A}
AttributeDicts == UNION {[S -> AttributeValues] : S \in SUBSET AttributeNames}

CheckIpFormat(ip) ==
    /\ call = NoCall
    /\ call' = [name |-> "checkipformat", ip |-> ip]
    /\ outcome' = checkipformat(ip)
    /\ UNCHANGED <<keyfile, cachefile, trace, request, response>>

FormatFields(fields) ==
    /\ call = NoCall
    /\ call' = [name |-> "formatfields", fields |-> fields]
    /\ outcome' = formatfields(fields)
    /\ UNCHANGED <<keyfile, cachefile, trace, request, response>>

NewResponse(attributes) ==
    /\ call = NoCall
    /\ call' = [name |-> "Response", attributes |-> attributes]
    /\ outcome' = Response(attributes)
    /\ UNCHANGED <<keyfile, cachefile, trace, request, response>>

NextFunctions ==
    \/ \E s \in IpSamples : CheckIpFormat(Str(s))
    \/ \E l \in FieldLists : FormatFields(List(l))
    \/ \E d \in AttributeDicts : NewResponse(Dict(d))
    \/ Continue

SpecFunctions == Init /\ [][NextFunctions]_vars

----------------------------------------------------------------------------
(* Properties *)

FieldSet == {_FIELDS[i] : i \in 1..Len(_FIELDS)}

\* The record a provider or cache mapping m stands for: every catalog field
\* holds m's value when m has one, and the empty string when it has none.
Shaped(dict, m) ==
    \A f \in FieldSet : dict[f] = IF f \in DOMAIN m THEN m[f] ELSE <<>>

\* C1: once a record whose ip is i is in the cache, get(ip=i) with the cache
\* search on and a key registered returns a record whose ip is i and whose other
\* catalog fields are those cached, and requests nothing.
C1_CacheRoundTrip ==
    (/\ call.name = "get"
     /\ keyfile.exists
     /\ call.cache_search
     /\ call.ip.t = "str"
     /\ call.ip.s \in DOMAIN cachefile.db
     /\ cachefile.db[call.ip.s][IP] = call.ip.s)
    => /\ outcome.kind = "return"
       /\ outcome.value.t = "Response"
       /\ outcome.value.dict[IP] = call.ip.s
       /\ \A f \in FieldSet : outcome.value.dict[f] = cachefile.db[call.ip.s][f]
       /\ request = None

\* C2 as stated: the record built from a payload mapping has exactly the catalog
\* names as its attributes, each holding the payload's value or the empty string.
C2_ExactlyCatalog ==
    call.name = "Response"
    => /\ outcome.kind = "return"
       /\ DOMAIN outcome.value.dict = FieldSet
       /\ Shaped(outcome.value.dict, call.attributes.d)

\* C2 as amended: the record built from a payload mapping has the catalog names
\* and, besides them, only currentfolder (the module's directory) as its
\* attributes; each catalog field holds the payload's value or the empty string,
\* and no payload key outside the catalog becomes an attribute.
C2_CatalogAndFolder ==
    call.name = "Response"
    => /\ outcome.kind = "return"
       /\ DOMAIN outcome.value.dict = FieldSet \cup {CURRENTFOLDER_ATTR}
       /\ Shaped(outcome.value.dict, call.attributes.d)
       /\ outcome.value.dict[CURRENTFOLDER_ATTR] = currentfolder

\* A record was built from a payload with a key outside the catalog, a catalog
\* key with a value, and catalog keys missing.
C2_Witness ==
    /\ call.name = "Response"
    /\ FOO \in DOMAIN call.attributes.d
    /\ CITY \in DOMAIN call.attributes.d
    /\ call.attributes.d[CITY] = <<"X">>
    /\ IP \notin DOMAIN call.attributes.d
    /\ outcome.kind = "return"

\* C3: without a key file, get raises KeyNotFound whatever its arguments, and
\* has neither opened the cache (which would create it) nor requested anything.
C3_NoKeyFailsFirst ==
    (call.name = "get" /\ ~keyfile.exists)
    => /\ outcome = KeyNotFound
       /\ trace = <<"getkey">>
       /\ ~cachefile.exists
       /\ request = None
       /\ response = None

\* get was called without a key file, with an ip and the cache search on.
C3_Witness ==
    /\ call.name = "get"
    /\ ~keyfile.exists
    /\ call.ip = Str(IP_A)
    /\ call.cache_search
    /\ call.fields # None
    /\ outcome.kind = "raise"

\* The explanation that goes with each status the code names.
FixedExplanation(status) ==
    CASE status = 401 -> REASON_401
      [] status = 403 -> REASON_403
      [] status = 404 -> REASON_404
      [] status = 423 -> REASON_423
      [] status = 429 -> REASON_429

\* The status mapping of get, unknown being the text that marks every status
\* the code does not name: 200 gives the record built from the body, a named
\* status RequestError with that status and its explanation, any other status
\* RequestError(unknown, unknown); only 200 gives a record.
StatusMapping(unknown) ==
    (call.name = "get" /\ response # None)
    => LET status == response.status_code IN
       /\ status = 200
          => /\ outcome.kind = "return"
             /\ outcome.value.t = "Response"
             /\ Shaped(outcome.value.dict, response.json.d)
       /\ status \in {401, 403, 404, 423, 429}
          => outcome = Raise("RequestError",
                             <<Number(status), Str(FixedExplanation(status))>>)
       /\ status \notin {200, 401, 403, 404, 423, 429}
          => outcome = Raise("RequestError", <<Str(unknown), Str(unknown)>>)
       /\ status # 200 => outcome.kind = "raise"

\* C4 as stated: 200 yields a record built from the JSON body; 401, 403, 404,
\* 423 and 429 yield the error with that status and its fixed explanation;
\* every other status yields the error ("unknown", "unknown"), in lower case;
\* no status other than 200 yields a record.
C4_StatusMappingLower == StatusMapping(<<"u","n","k","n","o","w","n">>)

\* C4 as amended: 200 yields a record built from the JSON body; 401, 403, 404,
\* 423 and 429 yield RequestError with that status and its fixed explanation;
\* every other status yields RequestError('Unknown', 'Unknown'), capitalised;
\* no status other than 200 yields a record.
C4_StatusMapping == StatusMapping(<<"U","n","k","n","o","w","n">>)

\* get received a status the code does not name and raised.
C4_Witness ==
    /\ call.name = "get"
    /\ response # None
    /\ response.status_code = 500
    /\ outcome.kind = "raise"

\* C5: formatfields(fields) gives the fields lower-cased and joined by commas in
\* their order when each names a catalog entry in whatever letter case, and
\* raises FieldDoesNotExist with the first field that names none otherwise.
C5_FormatFields ==
    call.name = "formatfields"
    => LET l == call.fields.l
           Named(i) == lower(l[i]) \in FieldSet
       IN  IF \A i \in 1..Len(l) : Named(i)
           THEN outcome = Return(Str(join(<<",">>, [i \in 1..Len(l) |-> lower(l[i])])))
           ELSE \E i \in 1..Len(l) :
                   /\ ~Named(i)
                   /\ \A j \in 1..(i - 1) : Named(j)
                   /\ outcome = FieldDoesNotExist(l[i])

\* s is four dot-separated segments and nothing else, each of 1 to 3 decimal
\* digits and of value below 256.
IsDottedQuad(s) ==
    LET segments == split(s, ".") IN
    /\ Len(segments) = 4
    /\ \A k \in 1..4 :
          /\ Len(segments[k]) \in 1..3
          /\ \A j \in 1..Len(segments[k]) : IsDigit(segments[k][j])
          /\ DecimalValue(segments[k]) < 256

\* C6: checkipformat(ip) returns exactly when ip is a dotted quad of segments
\* below 256 with no character before or after, and raises IncorrectIpFormat
\* for every other string.
C6_CheckIpFormat ==
    call.name = "checkipformat"
    => IF IsDottedQuad(call.ip.s)
       THEN outcome = Return(None)
       ELSE outcome = IncorrectIpFormat(<<"i","p","v","4">>)

\* C7: with the cache file there, uncache of a record whose ip is i leaves no
\* entry under i and every other entry as it was.
C7_Uncache ==
    [][(call'.name = "uncache" /\ cachefile.exists)
       => cachefile'.db = [k \in DOMAIN cachefile.db \ {call'.self.dict[IP]}
                              |-> cachefile.db[k]]]_vars

\* C8: a call of get, however it ends, leaves the entries of the cache as they
\* were.
C8_GetNeverWrites ==
    [][call'.name = "get" => cachefile'.db = cachefile.db]_vars

\* get fetched a record for an ip that is not in the existing cache, and the
\* cache still has no entry for it.
C8_Witness ==
    /\ call.name = "get"
    /\ response # None
    /\ outcome.kind = "return"
    /\ cachefile.exists
    /\ call.cache_search
    /\ call.ip = Str(IP_A)
    /\ IP_A \notin DOMAIN cachefile.db

\* The query string made of apiKey=<key> and then, for each argument marked
\* as given and in this order, ip=<ip>, fields=<formatfields(fields)> and
\* excludes=<formatfields(excluded_fields)>, with & between the parameters.
ExpectedQuery(key, a, ipGiven, fieldsGiven, excludedGiven) ==
    join(<<"&">>,
         <<<<"a","p","i","K","e","y","=">> \o key>>
         \o (IF ipGiven THEN <<<<"i","p","=">> \o a.ip.s>> ELSE <<>>)
         \o (IF fieldsGiven
             THEN <<<<"f","i","e","l","d","s","=">> \o formatfields(a.fields).value.s>>
             ELSE <<>>)
         \o (IF excludedGiven
             THEN <<<<"e","x","c","l","u","d","e","s","=">>
                    \o formatfields(a.excluded_fields).value.s>>
             ELSE <<>>))

\* C9 as stated: the URL a call of get requests is the endpoint followed by
\* apiKey=<the stored key> and then, in this order, ip=<ip> exactly when an ip
\* argument was supplied, fields=<formatfields(fields)> exactly when a fields
\* argument was supplied and excludes=<formatfields(excluded_fields)> exactly
\* when an excluded_fields argument was supplied, and nothing else.
C9_QueryOfSupplied ==
    (call.name = "get" /\ request # None)
    => request = Str(__URL \o ExpectedQuery(keyfile.content, call,
                         call.ip # None, call.fields # None,
                         call.excluded_fields # None))

\* C9 as amended: the same, with each of the three parameters present exactly
\* when its argument was supplied and is not empty: an empty ip string and an
\* empty fields or excluded_fields list add no parameter.
C9_QueryOfNonEmpty ==
    (call.name = "get" /\ request # None)
    => request = Str(__URL \o ExpectedQuery(keyfile.content, call,
                         Truthy(call.ip), Truthy(call.fields),
                         Truthy(call.excluded_fields)))

\* get requested a URL for an ip, a fields list and an excluded_fields list.
C9_Witness ==
    /\ call.name = "get"
    /\ request # None
    /\ call.ip = Str(IP_A)
    /\ call.fields = List(<<CITY, ASN>>)
    /\ call.excluded_fields = List(<<ISP>>)

\* The number of times x occurs in seq.
Count(x, seq) == Cardinality({i \in 1..Len(seq) : seq[i] = x})

\* What get calls, in the order the claim gives.
StepsOfGet ==
    <<"getkey", "retreivefromcache", "checkipformat", "formatfields(fields)",
      "formatfields(excluded_fields)", "requests.get">>

\* A call of get requests at most once, and not at all when it raises
\* KeyNotFound, IncorrectIpFormat or FieldDoesNotExist or ends at the cache
\* lookup; it requests only as its last step, after the key was read, the cache
\* lookup (when made) missed, and each argument marked as given was accepted
\* by its validator, ip first, then fields, then excluded_fields.
RequestOnlyAfterValidation(ipGiven, fieldsGiven, excludedGiven) ==
    LET lookup == InList("retreivefromcache", trace) IN
    /\ Count("requests.get", trace) <= 1
    /\ request # None <=> InList("requests.get", trace)
    /\ outcome.exc \in {"KeyNotFound", "IncorrectIpFormat", "FieldDoesNotExist"}
       => request = None
    /\ (lookup /\ trace[Len(trace)] = "retreivefromcache") => request = None
    /\ request # None
       => /\ keyfile.exists
          /\ lookup => call.ip.s \notin DOMAIN cachefile.db
          /\ ipGiven => checkipformat(call.ip) = Return(None)
          /\ fieldsGiven => formatfields(call.fields).kind = "return"
          /\ excludedGiven => formatfields(call.excluded_fields).kind = "return"
          /\ trace[1] = "getkey"
          /\ trace[Len(trace)] = "requests.get"
          /\ trace = SelectSeq(StepsOfGet, LAMBDA step : InList(step, trace))

\* C10 as stated: each get requests at most once, never when it ends in
\* KeyNotFound, IncorrectIpFormat, FieldDoesNotExist or a cache hit, and only
\* after the key was read, the cache lookup (when made) missed and every
\* supplied ip, fields and excluded_fields argument passed validation, in
\* that order.
C10_RequestAfterSuppliedValidated ==
    call.name = "get"
    => RequestOnlyAfterValidation(call.ip # None, call.fields # None,
                                  call.excluded_fields # None)

\* C10 as amended: the same, the arguments validated before the request being
\* those supplied and not empty: an empty ip string and an empty fields or
\* excluded_fields list are not validated.
C10_RequestAfterNonEmptyValidated ==
    call.name = "get"
    => RequestOnlyAfterValidation(Truthy(call.ip), Truthy(call.fields),
                                  Truthy(call.excluded_fields))

\* get requested after a cache lookup that missed and the validation of its
\* three arguments.
C10_Witness ==
    /\ call.name = "get"
    /\ request # None
    /\ Len(trace) = 6
====
